---------------------------- MODULE Spec2Model ----------------------------
(***************************************************************************)
(* Model of src/app.py: a Streamlit page that looks up an A-share quote    *)
(* (get_realtime_price), fetches its historical bars (get_history_data),   *)
(* adds the MA5 / MA20 rolling means and renders metrics, chart and table. *)
(*                                                                         *)
(* Provider column labels are written in pinyin, TLA+ strings being ASCII: *)
(*   daima = 代码, mingcheng = 名称, zuixinjia = 最新价, zhangdiee = 涨跌额, *)
(*   zhangdiefu = 涨跌幅, chengjiaoe = 成交额, riqi = 日期, kaipan = 开盘,   *)
(*   shoupan = 收盘, zuigao = 最高, zuidi = 最低, chengjiaoliang = 成交量.   *)
(***************************************************************************)
EXTENDS Integers, Sequences, FiniteSets, TLC

VARIABLES
    stock_code,     \* sidebar text input (line 12)
    period,         \* sidebar selectbox (line 13)
    days_back,      \* sidebar slider (line 14)
    pc,             \* position of the script run
    now,            \* wall clock, seconds since 2020-01-01 00:00:00 local time
    ticks,          \* number of clock advances so far (bounded)
    queries,        \* number of script runs so far (bounded)
    quoteCache,     \* st.cache_data store of get_realtime_price
    histCache,      \* st.cache_data store of get_history_data
    heap,           \* the DataFrame objects alive: object id -> frame
    realtime_data,  \* <<>> is None, <<row>> is a row (line 68)
    start_dt,       \* line 98
    end_dt,         \* line 99
    hist_df,        \* object id of the frame, 0 is None (line 101)
    shown,          \* the elements rendered by this run, in order
    snapCalls,      \* ak.stock_zh_a_spot_em() calls made by this run
    histCalls,      \* ak.stock_zh_a_hist() calls made by this run
    histCalledAt,   \* the clock when this run called get_history_data, else 0
    snapSeen,       \* the provider's answer to this run's snapshot call
    histSeen,       \* the provider's answer to this run's history call
    histReturned,   \* the value get_history_data returned, as it was on return
    fetched,        \* what each uncached get_history_data call returned, and when
    chartX,         \* the Date column handed to the chart (line 115)
    chartMA,        \* the MA5 and MA20 columns handed to the chart (126-127)
    tableRows,      \* the rows handed to st.dataframe (line 141)
    nowAtStart,     \* the clock value read on line 98
    nowAtEnd        \* the clock value read on line 99

vars == << stock_code, period, days_back, pc, now, ticks, queries, quoteCache,
           histCache, heap, realtime_data, start_dt, end_dt, hist_df, shown,
           snapCalls, histCalls, histCalledAt, snapSeen, histSeen, histReturned,
           fetched, chartX, chartMA, tableRows, nowAtStart, nowAtEnd >>

-----------------------------------------------------------------------------
(* Bounds of the model.                                                    *)

MaxTicks == 1

MaxQueries == 2

MaxBars == 21

-----------------------------------------------------------------------------
(* Calendar: datetime arithmetic and the "%Y%m%d" format.                  *)

SecondsPerDay == 24 * 60 * 60

IsLeap(y) == (y % 4 = 0 /\ y % 100 # 0) \/ y % 400 = 0

DaysInYear(y) == IF IsLeap(y) THEN 366 ELSE 365

DaysInMonth(y, m) ==
    IF m = 2 THEN (IF IsLeap(y) THEN 29 ELSE 28)
    ELSE IF m \in {4, 6, 9, 11} THEN 30 ELSE 31

RECURSIVE DaysBeforeYear(_)
\* days from 2020-01-01 to y-01-01, y >= 2020
DaysBeforeYear(y) ==
    IF y <= 2020 THEN 0 ELSE DaysBeforeYear(y - 1) + DaysInYear(y - 1)

RECURSIVE DaysBeforeMonth(_, _)
DaysBeforeMonth(y, m) ==
    IF m <= 1 THEN 0 ELSE DaysBeforeMonth(y, m - 1) + DaysInMonth(y, m - 1)

\* the day number of a calendar date (0 is 2020-01-01)
Ordinal(y, m, d) == DaysBeforeYear(y) + DaysBeforeMonth(y, m) + (d - 1)

RECURSIVE YearOf(_, _)
YearOf(n, y) == IF n < DaysInYear(y) THEN << y, n >>
                ELSE YearOf(n - DaysInYear(y), y + 1)

RECURSIVE MonthOf(_, _, _)
MonthOf(n, y, m) == IF n < DaysInMonth(y, m) THEN << m, n >>
                    ELSE MonthOf(n - DaysInMonth(y, m), y, m + 1)

\* datetime.strftime("%Y%m%d") of an instant, as the 8-digit number
Strftime(t) ==
    LET n  == t \div SecondsPerDay
        yr == YearOf(n, 2020)
        mo == MonthOf(yr[2], yr[1], 1)
    IN  yr[1] * 10000 + mo[1] * 100 + (mo[2] + 1)

\* datetime.now() - timedelta(days=n)
MinusDays(t, n) == t - n * SecondsPerDay

ValidDate(raw) ==
    LET y == raw \div 10000
        m == (raw \div 100) % 100
        d == raw % 100
    IN  /\ y >= 2020 /\ y <= 2099
        /\ m >= 1 /\ m <= 12
        /\ d >= 1 /\ d <= DaysInMonth(y, m)

\* pd.to_datetime of one provider date: the day number of the date it spells
ToDatetime(raw) == Ordinal(raw \div 10000, (raw \div 100) % 100, raw % 100)

-----------------------------------------------------------------------------
(* DataFrames: a set of column labels and a sequence of rows.              *)

ProviderCols == {"riqi", "kaipan", "shoupan", "zuigao", "zuidi", "chengjiaoliang"}

NoFrame == [cols |-> {}, rows |-> << >>]

\* NaN and a present mean num/den
NaN == [present |-> FALSE, num |-> 0, den |-> 1]

Mean(s, n) == [present |-> TRUE, num |-> s, den |-> n]

Column(df, c) == [i \in 1..Len(df.rows) |-> df.rows[i][c]]

IsEmpty(df) == Len(df.rows) = 0 \/ df.cols = {}


AddColumn(df, name, col) ==
    [cols |-> df.cols \cup {name},
     rows |-> [i \in 1..Len(df.rows) |->
                 [c \in df.cols \cup {name} |->
                     IF c = name THEN col[i] ELSE df.rows[i][c]]]]

\* df.rename(columns={...}, inplace=True), lines 46-47: labels only
RenameLabel(c) ==
    CASE c = "riqi"           -> "Date"
      [] c = "kaipan"         -> "Open"
      [] c = "shoupan"        -> "Close"
      [] c = "zuigao"         -> "High"
      [] c = "zuidi"          -> "Low"
      [] c = "chengjiaoliang" -> "Volume"
      [] OTHER                -> c

Rename(df) ==
    LET newCols == {RenameLabel(c) : c \in df.cols}
        Old(c2) == CHOOSE c \in df.cols : RenameLabel(c) = c2
    IN  [cols |-> newCols,
         rows |-> [i \in 1..Len(df.rows) |->
                     [c2 \in newCols |-> df.rows[i][Old(c2)]]]]

\* df['Date'] = pd.to_datetime(df['Date']), line 48, once the dates parse
ParseDates(df) ==
    [cols |-> df.cols,
     rows |-> [i \in 1..Len(df.rows) |->
                 [c \in df.cols |-> IF c = "Date" THEN ToDatetime(df.rows[i][c])
                                    ELSE df.rows[i][c]]]]

RECURSIVE InsertDesc(_, _)
\* r put into s, which is descending by Date, before the first smaller date
InsertDesc(s, r) ==
    IF s = << >> THEN << r >>
    ELSE IF r["Date"] > Head(s)["Date"] THEN << r >> \o s
         ELSE << Head(s) >> \o InsertDesc(Tail(s), r)

RECURSIVE SortedDesc(_)
SortedDesc(s) == IF s = << >> THEN << >>
                 ELSE InsertDesc(SortedDesc(Tail(s)), Head(s))

\* hist_df.sort_values(by='Date', ascending=False), line 141: a new frame
SortValuesDesc(df) == [cols |-> df.cols, rows |-> SortedDesc(df.rows)]

-----------------------------------------------------------------------------
(* Series.rolling(window=w).mean(), lines 107-108. pandas keeps a running  *)
(* sum, adding the bar that enters the window and removing the one that    *)
(* leaves it, and gives NaN while fewer than min_periods = w bars are in.  *)

RECURSIVE RunningSum(_, _, _)
RunningSum(x, w, i) ==
    IF i = 0 THEN 0
    ELSE RunningSum(x, w, i - 1) + x[i] - (IF i > w THEN x[i - w] ELSE 0)

\* rolling(window=w, min_periods=1): a value from the first bar on
MinPeriodsOne(w) == 1

MinPeriods(w) == w

RollingMean(x, w) ==
    [i \in 1..Len(x) |->
        IF i >= MinPeriods(w) THEN Mean(RunningSum(x, w, i), w) ELSE NaN]

\* lines 107-108, on the frame object hist_df refers to
AddMovingAverages(df) ==
    LET d5 == AddColumn(df, "MA5", RollingMean(Column(df, "Close"), 5))
    IN  AddColumn(d5, "MA20", RollingMean(Column(d5, "Close"), 20))

-----------------------------------------------------------------------------
(* The provider (akshare) and what it may answer.                          *)

MkRow(code, name, price, change, pct, high, low, vol, amount) ==
    [daima |-> code, mingcheng |-> name, zuixinjia |-> price,
     zhangdiee |-> change, zhangdiefu |-> pct, zuigao |-> high,
     zuidi |-> low, chengjiaoliang |-> vol, chengjiaoe |-> amount]

Row519 == MkRow("600519", "Moutai", 170000, 1000, 59, 170500, 169000, 50000, 85000)

Row001 == MkRow("000001", "PingAn", 1050, -5, -47, 1060, 1040, 900000, 9500)

Row519Dup == MkRow("600519", "Other", 1, 0, 0, 1, 1, 1, 1)

\* ak.stock_zh_a_spot_em(), line 27: raises, or returns the market table
SnapshotResponses ==
    { [exc |-> "ConnectionError", table |-> << >>],
      [exc |-> "", table |-> << Row001, Row519 >>],
      [exc |-> "", table |-> << Row001 >>] }

MkBar(date, o, h, l, c, v) ==
    [col \in ProviderCols |->
        CASE col = "riqi"    -> date
          [] col = "kaipan"  -> o
          [] col = "shoupan" -> c
          [] col = "zuigao"  -> h
          [] col = "zuidi"   -> l
          [] OTHER           -> v]

MkFrame(bars) == [cols |-> ProviderCols, rows |-> bars]

FrameUnsorted ==
    MkFrame(<< MkBar(20240105, 10, 12, 9, 11, 500),
               MkBar(20240102, 11, 13, 10, 12, 510),
               MkBar(20240103, 12, 14, 11, 14, 520),
               MkBar(20240104, 14, 15, 13, 13, 530),
               MkBar(20240108, 13, 16, 12, 16, 540),
               MkBar(20240109, 16, 18, 15, 17, 550) >>)

FrameBadDate ==
    MkFrame(<< MkBar(20240229, 10, 12, 9, 11, 500),
               MkBar(20240230, 11, 13, 10, 12, 510) >>)

\* ak.stock_zh_a_hist(...), line 43: raises, or returns a table, which may
\* have no bars and may (pd.DataFrame()) have no columns either
HistResponses ==
    { [exc |-> "ConnectionError", frame |-> NoFrame],
      [exc |-> "", frame |-> NoFrame],
      [exc |-> "", frame |-> MkFrame(<< >>)],
      [exc |-> "", frame |-> FrameUnsorted],
      [exc |-> "", frame |-> FrameBadDate] }

-----------------------------------------------------------------------------
(* get_realtime_price, lines 22-35, without its cache.                     *)

\* except Exception, line 33
QuoteCatches(e) == e \in {"ConnectionError", "KeyError", "ValueError"}

\* line 30 reading df.iloc[0] instead of stock_info.iloc[0]
StockInfoUnfiltered(table, code) == table

\* df[df['daima'] == code], line 28
StockInfo(table, code) ==
    LET Match(r) == r.daima = code IN SelectSeq(table, Match)

\* ret is << >> for None; escaped names an exception leaving the function
get_realtime_price(resp, code) ==
    IF resp.exc # ""
    THEN IF QuoteCatches(resp.exc)
         THEN [ret |-> << >>, msgs |-> << "error_quote" >>, escaped |-> ""]
         ELSE [ret |-> << >>, msgs |-> << >>, escaped |-> resp.exc]
    ELSE LET stock_info == StockInfo(resp.table, code)
         IN  IF stock_info # << >>
             THEN [ret |-> << stock_info[1] >>, msgs |-> << >>, escaped |-> ""]
             ELSE [ret |-> << >>, msgs |-> << >>, escaped |-> ""]

-----------------------------------------------------------------------------
(* get_history_data, lines 38-52, without its cache.                       *)

\* the try block, lines 41-49: the exception raised, "" when none
HistTryRaises(resp) ==
    IF resp.exc # "" THEN resp.exc
    ELSE LET df == Rename(resp.frame)
         IN  IF "Date" \notin df.cols THEN "KeyError"
             ELSE IF \E i \in 1..Len(df.rows) : ~ValidDate(df.rows[i]["Date"])
                  THEN "ValueError"
                  ELSE ""

\* a normalisation that also sorts the bars, newest first
NormalizeSorted(frame) == SortValuesDesc(ParseDates(Rename(frame)))

\* the frame line 49 returns
Normalize(frame) == ParseDates(Rename(frame))

\* except ConnectionError: the rename and date-parse errors not caught
HistCatchesTransportOnly(e) == e = "ConnectionError"

\* except Exception, line 50
HistCatches(e) == e \in {"ConnectionError", "KeyError", "ValueError"}

get_history_data(resp) ==
    LET e == HistTryRaises(resp)
    IN  IF e = ""
        THEN [ret |-> << Normalize(resp.frame) >>, msgs |-> << >>, escaped |-> ""]
        ELSE IF HistCatches(e)
             THEN [ret |-> << >>, msgs |-> << "error_hist" >>, escaped |-> ""]
             ELSE [ret |-> << >>, msgs |-> << >>, escaped |-> e]

-----------------------------------------------------------------------------
(* @st.cache_data(ttl=...), lines 21 and 37: the store keeps, per argument *)
(* tuple, the pickled return value and the elements the call rendered; a   *)
(* hit within the ttl replays the elements and returns a fresh unpickled   *)
(* copy without running the function.                                      *)

QuoteTTL == 60

HistTTL == 3600

Live(cache, ttl) == {e \in cache : now - e.at < ttl}

\* the smallest unused object id
Alloc(h) ==
    CHOOSE n \in 1..(Cardinality(DOMAIN h) + 1) :
        n \notin DOMAIN h /\ \A m \in 1..(n - 1) : m \in DOMAIN h

Put(h, id, v) == [i \in DOMAIN h \cup {id} |-> IF i = id THEN v ELSE h[i]]

\* st.cache_resource: the store keeps the returned object itself
WriteResultByReference(h, id) == [heap |-> h, ref |-> id]

\* storing a returned object (0 is None): the store holds its own pickled copy
WriteResult(h, id) ==
    IF id = 0 THEN [heap |-> h, ref |-> 0]
    ELSE [heap |-> Put(h, Alloc(h), h[id]), ref |-> Alloc(h)]

\* a hit: the caller gets a new object unpickled from the stored one
ReadResult(h, ref) ==
    IF ref = 0 THEN [heap |-> h, id |-> 0]
    ELSE [heap |-> Put(h, Alloc(h), h[ref]), id |-> Alloc(h)]

HistKey == << stock_code, period, start_dt, end_dt >>

\* the objects the store of get_history_data refers to
CacheRefs(cache) == {e.ref : e \in cache} \ {0}

Restrict(h, ids) == [i \in DOMAIN h \cap ids |-> h[i]]

-----------------------------------------------------------------------------
(* The user's inputs and the clock.                                        *)

Codes == {"", "600519", "999999"}

Periods == {"daily", "weekly"}

DaysBackChoices == {30, 120}

\* 2024-02-29 23:59:59, one second before the date changes
StartTime == Ordinal(2024, 2, 29) * SecondsPerDay + (SecondsPerDay - 1)

TickSteps == {1, HistTTL}

NoResp == [exc |-> "none", table |-> << >>]

NoHist == [exc |-> "none", frame |-> NoFrame]

Init ==
    /\ stock_code = "600519"
    /\ period = "daily"
    /\ days_back = 120
    /\ pc = "quote"
    /\ now = StartTime
    /\ ticks = 0
    /\ queries = 1
    /\ quoteCache = {}
    /\ histCache = {}
    /\ heap = << >>
    /\ realtime_data = << >>
    /\ start_dt = 0
    /\ end_dt = 0
    /\ hist_df = 0
    /\ shown = << >>
    /\ snapCalls = 0
    /\ histCalls = 0
    /\ histCalledAt = 0
    /\ snapSeen = NoResp
    /\ histSeen = NoHist
    /\ histReturned = << >>
    /\ fetched = {}
    /\ chartX = << >>
    /\ chartMA = << >>
    /\ tableRows = << >>
    /\ nowAtStart = 0
    /\ nowAtEnd = 0

\* time passes, between any two steps of the script
Tick(d) ==
    /\ ticks < MaxTicks
    /\ now' = now + d
    /\ ticks' = ticks + 1
    /\ UNCHANGED << stock_code, period, days_back, pc, queries, quoteCache,
                    histCache, heap, realtime_data, start_dt, end_dt, hist_df,
                    shown, snapCalls, histCalls, histCalledAt, snapSeen,
                    histSeen, histReturned, fetched, chartX, chartMA,
                    tableRows, nowAtStart, nowAtEnd >>

\* the user sets the widgets: Streamlit runs the script again from the top
Submit(code, per, days) ==
    /\ pc \in {"done", "crashed"}
    /\ queries < MaxQueries
    /\ queries' = queries + 1
    /\ stock_code' = code
    /\ period' = per
    /\ days_back' = days
    /\ pc' = IF code # "" THEN "quote" ELSE "done"
    /\ shown' = IF code # "" THEN << >> ELSE << "info" >>
    /\ heap' = Restrict(heap, CacheRefs(histCache))
    /\ realtime_data' = << >>
    /\ start_dt' = 0
    /\ end_dt' = 0
    /\ hist_df' = 0
    /\ snapCalls' = 0
    /\ histCalls' = 0
    /\ histCalledAt' = 0
    /\ snapSeen' = NoResp
    /\ histSeen' = NoHist
    /\ histReturned' = << >>
    /\ chartX' = << >>
    /\ chartMA' = << >>
    /\ tableRows' = << >>
    /\ nowAtStart' = 0
    /\ nowAtEnd' = 0
    /\ UNCHANGED << now, ticks, quoteCache, histCache, fetched >>

-----------------------------------------------------------------------------
(* Lines 68-95 and 143-144: the quote stage.                               *)

\* line 70 without its test
QuoteFoundAlways(rd) == TRUE

\* realtime_data is not None, line 70
QuoteFound(rd) == rd # << >>

\* lines 70-95 and 143-144, once get_realtime_price returned rd having
\* rendered msgs
PageQuote(rd, msgs) ==
    /\ realtime_data' = rd
    /\ IF QuoteFound(rd)
       THEN /\ shown' = shown \o msgs \o << "title", "metrics" >>
            /\ pc' = "start"
       ELSE /\ shown' = shown \o msgs \o << "warning" >>
            /\ pc' = "done"

QuoteHit ==
    /\ pc = "quote"
    /\ \E e \in Live(quoteCache, QuoteTTL) :
          /\ e.key = stock_code
          /\ PageQuote(e.value, e.msgs)
    /\ quoteCache' = Live(quoteCache, QuoteTTL)
    /\ UNCHANGED << stock_code, period, days_back, now, ticks, queries,
                    histCache, heap, start_dt, end_dt, hist_df, snapCalls,
                    histCalls, histCalledAt, snapSeen, histSeen, histReturned,
                    fetched, chartX, chartMA, tableRows, nowAtStart, nowAtEnd >>

QuoteMiss(resp) ==
    /\ pc = "quote"
    /\ \A e \in Live(quoteCache, QuoteTTL) : e.key # stock_code
    /\ snapCalls' = snapCalls + 1
    /\ snapSeen' = resp
    /\ LET out == get_realtime_price(resp, stock_code)
       IN  IF out.escaped # ""
           THEN /\ pc' = "crashed"
                /\ shown' = shown \o << "exception" >>
                /\ quoteCache' = Live(quoteCache, QuoteTTL)
                /\ UNCHANGED realtime_data
           ELSE /\ quoteCache' = Live(quoteCache, QuoteTTL) \cup
                      { [key |-> stock_code, value |-> out.ret,
                         msgs |-> out.msgs, at |-> now] }
                /\ PageQuote(out.ret, out.msgs)
    /\ UNCHANGED << stock_code, period, days_back, now, ticks, queries,
                    histCache, heap, start_dt, end_dt, hist_df, histCalls,
                    histCalledAt, histSeen, histReturned, fetched, chartX,
                    chartMA, tableRows, nowAtStart, nowAtEnd >>

-----------------------------------------------------------------------------
(* Lines 98-99: the date range, from two reads of the clock.               *)

ReadStart ==
    /\ pc = "start"
    /\ nowAtStart' = now
    /\ start_dt' = Strftime(MinusDays(now, days_back))
    /\ pc' = "end"
    /\ UNCHANGED << stock_code, period, days_back, now, ticks, queries,
                    quoteCache, histCache, heap, realtime_data, end_dt,
                    hist_df, shown, snapCalls, histCalls, histCalledAt,
                    snapSeen, histSeen, histReturned, fetched, chartX,
                    chartMA, tableRows, nowAtEnd >>

ReadEnd ==
    /\ pc = "end"
    /\ nowAtEnd' = now
    /\ end_dt' = Strftime(now)
    /\ pc' = "hist"
    /\ UNCHANGED << stock_code, period, days_back, now, ticks, queries,
                    quoteCache, histCache, heap, realtime_data, start_dt,
                    hist_df, shown, snapCalls, histCalls, histCalledAt,
                    snapSeen, histSeen, histReturned, fetched, chartX,
                    chartMA, tableRows, nowAtStart >>

-----------------------------------------------------------------------------
(* Lines 101-141: the history stage.                                       *)

\* line 103 without the test for an empty frame
ShowsChartNotNone(h, id) == id # 0

\* hist_df is not None and not hist_df.empty, line 103
ShowsChart(h, id) == id # 0 /\ ~IsEmpty(h[id])

\* lines 103-141, once get_history_data returned object id (0 is None) in
\* heap h having rendered msgs
PageHistory(h, id, msgs) ==
    /\ hist_df' = id
    /\ histCalledAt' = now
    /\ histReturned' = IF id = 0 THEN << >> ELSE << h[id] >>
    /\ IF ShowsChart(h, id)
       THEN LET df == AddMovingAverages(h[id])
            IN  /\ heap' = [h EXCEPT ![id] = df]
                /\ chartX' = Column(df, "Date")
                /\ chartMA' = << Column(df, "MA5"), Column(df, "MA20") >>
                /\ tableRows' = SortValuesDesc(df).rows
                /\ shown' = shown \o msgs \o << "subheader", "chart", "table" >>
       ELSE /\ heap' = h
            /\ chartX' = << >>
            /\ chartMA' = << >>
            /\ tableRows' = << >>
            /\ shown' = shown \o msgs
    /\ pc' = "done"

HistoryHit ==
    /\ pc = "hist"
    /\ \E e \in Live(histCache, HistTTL) :
          /\ e.key = HistKey
          /\ LET r == ReadResult(heap, e.ref)
             IN  PageHistory(r.heap, r.id, e.msgs)
    /\ histCache' = Live(histCache, HistTTL)
    /\ UNCHANGED << stock_code, period, days_back, now, ticks, queries,
                    quoteCache, realtime_data, start_dt, end_dt, snapCalls,
                    histCalls, snapSeen, histSeen, fetched, nowAtStart,
                    nowAtEnd >>

HistoryMiss(resp) ==
    /\ pc = "hist"
    /\ \A e \in Live(histCache, HistTTL) : e.key # HistKey
    /\ histCalls' = histCalls + 1
    /\ histSeen' = resp
    /\ LET out == get_history_data(resp)
           id  == IF out.ret = << >> THEN 0 ELSE Alloc(heap)
           h1  == IF out.ret = << >> THEN heap ELSE Put(heap, id, out.ret[1])
           w   == WriteResult(h1, id)
       IN  IF out.escaped # ""
           THEN /\ pc' = "crashed"
                /\ shown' = shown \o << "exception" >>
                /\ histCache' = Live(histCache, HistTTL)
                /\ histCalledAt' = now
                /\ UNCHANGED << heap, hist_df, histReturned, fetched, chartX,
                                chartMA, tableRows >>
           ELSE /\ histCache' =
                      Live(histCache, HistTTL) \cup
                      { [key |-> HistKey, ref |-> w.ref, msgs |-> out.msgs,
                         at |-> now] }
                /\ fetched' = fetched \cup
                              { [key |-> HistKey, ret |-> out.ret,
                                 at |-> now, run |-> queries] }
                /\ PageHistory(w.heap, id, out.msgs)
    /\ UNCHANGED << stock_code, period, days_back, now, ticks, queries,
                    quoteCache, realtime_data, start_dt, end_dt, snapCalls,
                    snapSeen, nowAtStart, nowAtEnd >>

Next ==
    \/ \E d \in TickSteps : Tick(d)
    \/ \E code \in Codes, per \in Periods, days \in DaysBackChoices :
          Submit(code, per, days)
    \/ QuoteHit
    \/ \E resp \in SnapshotResponses : QuoteMiss(resp)
    \/ ReadStart
    \/ ReadEnd
    \/ HistoryHit
    \/ \E resp \in HistResponses : HistoryMiss(resp)

Spec == Init /\ [][Next]_vars

-----------------------------------------------------------------------------
(* The history stage on longer series: the run is about to call            *)
(* get_history_data and the provider answers with 0..MaxBars bars.         *)

GenClose(a, b, i) == 10 + ((a * i + b * i * i) % 7)

GenFrame(n, a, b) ==
    MkFrame([i \in 1..n |->
               MkBar(20240100 + i, GenClose(a, b, i), GenClose(a, b, i) + 1,
                     GenClose(a, b, i) - 1, GenClose(a, b, i), 100 * i)])

LongHistResponses ==
    { [exc |-> "", frame |-> GenFrame(n, a, b)] :
        n \in 0..MaxBars, a \in 0..4, b \in 0..3 }

InitMA ==
    /\ stock_code = "600519"
    /\ period = "daily"
    /\ days_back = 120
    /\ pc = "hist"
    /\ now = StartTime
    /\ ticks = 0
    /\ queries = 1
    /\ quoteCache = { [key |-> "600519", value |-> << Row519 >>,
                       msgs |-> << >>, at |-> StartTime] }
    /\ histCache = {}
    /\ heap = << >>
    /\ realtime_data = << Row519 >>
    /\ start_dt = Strftime(MinusDays(StartTime, 120))
    /\ end_dt = Strftime(StartTime)
    /\ hist_df = 0
    /\ shown = << "title", "metrics" >>
    /\ snapCalls = 1
    /\ histCalls = 0
    /\ histCalledAt = 0
    /\ snapSeen = [exc |-> "", table |-> << Row001, Row519 >>]
    /\ histSeen = NoHist
    /\ histReturned = << >>
    /\ fetched = {}
    /\ chartX = << >>
    /\ chartMA = << >>
    /\ tableRows = << >>
    /\ nowAtStart = StartTime
    /\ nowAtEnd = StartTime

NextMA == \E resp \in LongHistResponses : HistoryMiss(resp)

SpecMA == InitMA /\ [][NextMA]_vars

-----------------------------------------------------------------------------
(* The quote stage on more snapshots: the run is about to call             *)
(* get_realtime_price and the provider answers with up to MaxRows rows,    *)
(* in any order, identifiers repeated or not.                              *)

MaxRows == 3

Row300 == MkRow("300750", "CATL", 20000, 150, 75, 20100, 19800, 70000, 14000)

SnapshotRows == {Row001, Row519, Row519Dup, Row300}

WideSnapshotResponses ==
    { [exc |-> "ConnectionError", table |-> << >>] } \cup
    { [exc |-> "", table |-> t] :
        t \in UNION { [1..n -> SnapshotRows] : n \in 0..MaxRows } }

InitQuote ==
    /\ stock_code \in {"600519", "000001", "999999"}
    /\ period = "daily"
    /\ days_back = 120
    /\ pc = "quote"
    /\ now = StartTime
    /\ ticks = 0
    /\ queries = 1
    /\ quoteCache = {}
    /\ histCache = {}
    /\ heap = << >>
    /\ realtime_data = << >>
    /\ start_dt = 0
    /\ end_dt = 0
    /\ hist_df = 0
    /\ shown = << >>
    /\ snapCalls = 0
    /\ histCalls = 0
    /\ histCalledAt = 0
    /\ snapSeen = NoResp
    /\ histSeen = NoHist
    /\ histReturned = << >>
    /\ fetched = {}
    /\ chartX = << >>
    /\ chartMA = << >>
    /\ tableRows = << >>
    /\ nowAtStart = 0
    /\ nowAtEnd = 0

NextQuote == \E resp \in WideSnapshotResponses : QuoteMiss(resp)

SpecQuote == InitQuote /\ [][NextQuote]_vars

-----------------------------------------------------------------------------
(* Properties.                                                             *)

Elems(seq) == {seq[i] : i \in DOMAIN seq}

RECURSIVE SumRange(_, _, _)
\* x[lo] + ... + x[hi]
SumRange(x, lo, hi) == IF lo > hi THEN 0 ELSE x[lo] + SumRange(x, lo + 1, hi)

MAName(w) == IF w = 5 THEN "MA5" ELSE "MA20"

\* the history call of this run failed: the provider raised, the table has
\* no date column, or one of its dates does not parse
HistFetchFailed ==
    /\ histSeen.exc # "none"
    /\ \/ histSeen.exc # ""
       \/ "riqi" \notin histSeen.frame.cols
       \/ \E i \in 1..Len(histSeen.frame.rows) :
             ~ValidDate(histSeen.frame.rows[i]["riqi"])

\* the snapshot call of this run raised
QuoteFetchFailed == snapSeen.exc \notin {"", "none"}

\* C1: in every frame that received the MA5 and MA20 columns, for w in
\* {5, 20} the value at the i-th bar (counting from 1) is present iff i >= w,
\* and is then the mean of the w closes ending at that bar: their sum over w.
C1_MovingAverageWindow ==
    \A id \in DOMAIN heap :
        "MA5" \in heap[id].cols =>
            LET df == heap[id]
                x  == Column(df, "Close")
            IN  \A i \in 1..Len(df.rows) : \A w \in {5, 20} :
                    LET v == df.rows[i][MAName(w)]
                    IN  /\ v.present <=> i >= w
                        /\ v.present =>
                              /\ v.num = SumRange(x, i - w + 1, i)
                              /\ v.den = w
                        /\ chartMA[IF w = 5 THEN 1 ELSE 2][i] = v

C1_Witness ==
    /\ pc = "done"
    /\ hist_df # 0
    /\ Len(heap[hist_df].rows) >= 21
    /\ heap[hist_df].rows[21]["MA20"].present
    /\ ~heap[hist_df].rows[19]["MA20"].present
    /\ heap[hist_df].rows[5]["MA5"].present
    /\ heap[hist_df].rows[20]["Close"] # heap[hist_df].rows[21]["Close"]

\* C2 (as claimed): when the snapshot call of a query raised, the caller
\* does not get what it gets for an identifier that is not in the snapshot,
\* None together with the "not found" warning.
C2_FetchFailedNotShownAsNotFound ==
    (pc = "done" /\ QuoteFetchFailed) =>
        ~(realtime_data = << >> /\ "warning" \in Elems(shown))

\* C3: no exception leaves a fetch function; a snapshot call that raised
\* gives None and a rendered error, and a history call that raised, or whose
\* table has no date column or an unparseable date, gives None for the
\* whole fetch and a rendered error, and no chart.
C3_FetchFaultsCaught ==
    /\ pc # "crashed"
    /\ "exception" \notin Elems(shown)
    /\ QuoteFetchFailed =>
          /\ realtime_data = << >>
          /\ "error_quote" \in Elems(shown)
    /\ HistFetchFailed =>
          /\ histReturned = << >>
          /\ hist_df = 0
          /\ "error_hist" \in Elems(shown)
          /\ "chart" \notin Elems(shown)
          /\ pc = "done"

C3_Witness ==
    /\ pc = "done"
    /\ histSeen.exc = ""
    /\ \E i \in 1..Len(histSeen.frame.rows) :
          ~ValidDate(histSeen.frame.rows[i]["riqi"])
    /\ hist_df = 0
    /\ "error_hist" \in Elems(shown)

C5_NotFoundSkipsHistory ==
    /\ (/\ pc = "done"
        /\ stock_code # ""
        /\ realtime_data = << >>
        /\ "error_quote" \notin Elems(shown)) =>
           /\ shown = << "warning" >>
           /\ histCalledAt = 0
           /\ histCalls = 0
    /\ (histCalledAt # 0 \/ histCalls > 0 \/ pc \in {"start", "end", "hist"}) =>
           realtime_data # << >>

C5_Witness ==
    /\ pc = "done"
    /\ snapCalls = 1
    /\ snapSeen.exc = ""
    /\ realtime_data = << >>
    /\ shown = << "warning" >>
    /\ histCalls = 0

\* C6 (as claimed): a run that reports a failed fetch attempted that fetch:
\* resubmitting after a failure calls the provider again.
C6_RetriggerFetchesAgain ==
    pc = "done" =>
        /\ "error_quote" \in Elems(shown) => snapCalls = 1
        /\ "error_hist" \in Elems(shown) => histCalls = 1

\* C7: when an earlier run fetched the same (code, period, start, end) less
\* than the ttl before this run's call, this run's call makes no provider
\* call and returns exactly the frame that fetch returned, without the MA
\* columns the earlier run added to its own frame.
C7_CacheHitReturnsFetchedValue ==
    (pc = "done" /\ histCalledAt # 0) =>
        \A f \in fetched :
            (f.key = HistKey /\ f.run < queries /\ histCalledAt - f.at < HistTTL) =>
                /\ histCalls = 0
                /\ histReturned = f.ret

C7_Witness ==
    /\ pc = "done"
    /\ histCalledAt # 0
    /\ histCalls = 0
    /\ histReturned # << >>
    /\ Len(histReturned[1].rows) >= 5
    /\ "MA5" \notin histReturned[1].cols
    /\ "MA5" \in heap[hist_df].cols
    /\ \E f \in fetched : f.key = HistKey /\ f.run < queries

UniqueIds(table) ==
    \A i, j \in 1..Len(table) : table[i].daima = table[j].daima => i = j

\* C8: when the snapshot this run fetched has unique identifiers, the quote
\* is the row whose identifier is the code, every field as in the snapshot,
\* if there is one; otherwise it is None, no error is rendered and the
\* "not found" warning is what the run shows.
C8_QuoteIsTheMatchingRow ==
    (snapSeen.exc = "" /\ UniqueIds(snapSeen.table)) =>
        /\ \A i \in 1..Len(snapSeen.table) :
              snapSeen.table[i].daima = stock_code =>
                  realtime_data = << snapSeen.table[i] >>
        /\ (\A i \in 1..Len(snapSeen.table) :
               snapSeen.table[i].daima # stock_code) =>
                  /\ realtime_data = << >>
                  /\ shown = << "warning" >>
                  /\ pc = "done"

C8_Witness ==
    /\ snapSeen.exc = ""
    /\ UniqueIds(snapSeen.table)
    /\ Len(snapSeen.table) = 3
    /\ snapSeen.table[3].daima = stock_code
    /\ realtime_data = << snapSeen.table[3] >>
    /\ pc = "start"

\* C9: the frame get_history_data returns has the provider's bars in the
\* provider's order, labels renamed, dates parsed, values unchanged; the
\* chart gets the dates in that order; and after the table was rendered
\* newest first, the frame hist_df refers to is still in that order.
C9_NormalizationPreservesOrder ==
    (pc = "done" /\ histCalls = 1 /\ hist_df # 0) =>
        LET raw == histSeen.frame.rows
            ret == histReturned[1].rows
            df  == heap[hist_df]
        IN  /\ Len(ret) = Len(raw)
            /\ \A i \in 1..Len(raw) :
                  /\ ret[i]["Date"] = ToDatetime(raw[i]["riqi"])
                  /\ ret[i]["Open"] = raw[i]["kaipan"]
                  /\ ret[i]["Close"] = raw[i]["shoupan"]
                  /\ ret[i]["High"] = raw[i]["zuigao"]
                  /\ ret[i]["Low"] = raw[i]["zuidi"]
                  /\ ret[i]["Volume"] = raw[i]["chengjiaoliang"]
            /\ "chart" \in Elems(shown) =>
                  /\ chartX = [i \in 1..Len(raw) |-> ToDatetime(raw[i]["riqi"])]
                  /\ Column(df, "Date") = chartX
                  /\ Len(tableRows) = Len(raw)
                  /\ \A i, j \in 1..Len(tableRows) :
                        i < j => tableRows[i]["Date"] >= tableRows[j]["Date"]

C9_Witness ==
    /\ pc = "done"
    /\ histCalls = 1
    /\ "table" \in Elems(shown)
    /\ Len(chartX) >= 2
    /\ chartX[1] > chartX[2]
    /\ tableRows # heap[hist_df].rows
    /\ Column(heap[hist_df], "Date") = chartX

\* C10 (as claimed): once both dates are computed, start_dt is exactly
\* days_back calendar days before end_dt, and so not after it.
C10_RangeIsExactlyNDays ==
    (pc \in {"hist", "done"} /\ end_dt # 0) =>
        /\ ToDatetime(start_dt) <= ToDatetime(end_dt)
        /\ ToDatetime(end_dt) - ToDatetime(start_dt) = days_back

=============================================================================
